---- MODULE Spec2Model ----
(***************************************************************************)
(* State-machine model of the optimistic mutation engine                   *)
(* (src/src/lib/optimistic-engine.ts): Transaction, MutationQueue and the  *)
(* multi-store full-rebase rollback, over two stores whose values are      *)
(* JSON-shaped trees edited through immer patches.                         *)
(***************************************************************************)
EXTENDS Integers, Sequences, FiniteSets, TLC

\* ------------------------------------------------------------------ bounds
\* number of mutations that may be committed in one run
MaxMutations == 3
\* number of recorded set() calls of one transaction
MaxSets == 2
\* number of set() calls recorded in one run, over all transactions
MaxPatches == 4
\* largest value the wall clock (Date.now()) reaches
MaxClock == 1
\* number of distinct leaf values a field can hold
NVals == 4
\* number of Transaction objects a caller holds at a time
NumTx == 1
\* largest retry budget (options.maxRetries) an engine is created with
MaxBudget == 1
\* number of mutations committed in a run that fills the history
MaxRetired == 22
\* number of mutations committed in a run with a writing observer
MaxObserved == 2
\* longest list of paths, and longest list of patches, a path utility is called with
MaxPaths == 2
\* number of mutations committed in a run in which every remote call settles
MaxSettled == 2

\* ------------------------------------------------------------------ stores
Stores == <<"taskStore", "userStore">>

StoreSet == {Stores[i] : i \in 1..Len(Stores)}

\* the single root key of each store's state object
RootKey(s) == IF s = "taskStore" THEN "tasks" ELSE "users"

\* the leaf field the recipes of a store write
FieldOf(s) == IF s = "taskStore" THEN "title" ELSE "assigned"

\* entity keys the recipes of a store address
EntKeys(s) == IF s = "taskStore" THEN {"t1", "t3"} ELSE {"u1"}

\* a freshly created entity (createTask's object literal)
NewEntity(s) == [k \in {FieldOf(s)} |-> 0]

\* initial store values: t1 and u1 exist, t3 does not
InitialState(s) ==
  IF s = "taskStore"
    THEN [r \in {"tasks"} |-> [e \in {"t1"} |-> [k \in {"title"} |-> 0]]]
    ELSE [r \in {"users"} |-> [e \in {"u1"} |-> [k \in {"assigned"} |-> 0]]]

\* ------------------------------------------------------------ patch model
\* obj with key set to value (JS: base[key] = value)
SetKey(obj, key, value) ==
  [k \in (DOMAIN obj) \cup {key} |-> IF k = key THEN value ELSE obj[k]]

\* obj without key (JS: delete base[key])
DelKey(obj, key) == [k \in (DOMAIN obj) \ {key} |-> obj[k]]

\* immer applyPatches, one patch on an object tree: every segment but the
\* last must resolve to an object, else the call throws; on the parent,
\* add and replace assign the key and remove deletes it.
RECURSIVE ApplyAt(_, _, _)
ApplyAt(node, path, patch) ==
  IF Len(path) = 1
    THEN [ok |-> TRUE,
          val |-> IF patch.op = "remove"
                    THEN DelKey(node, path[1])
                    ELSE SetKey(node, path[1], patch.value)]
    ELSE IF path[1] \notin DOMAIN node
      THEN [ok |-> FALSE, val |-> node]
      ELSE LET r == ApplyAt(node[path[1]], Tail(path), patch)
           IN  IF r.ok
                 THEN [ok |-> TRUE, val |-> SetKey(node, path[1], r.val)]
                 ELSE [ok |-> FALSE, val |-> node]

\* immer applyPatches(state, patches): all patches in order inside one
\* produce; a throw leaves the input untouched.
RECURSIVE ApplyFrom(_, _, _)
ApplyFrom(orig, cur, patches) ==
  IF patches = <<>>
    THEN [ok |-> TRUE, val |-> cur]
    ELSE LET r == ApplyAt(cur, Head(patches).path, Head(patches))
         IN  IF r.ok
               THEN ApplyFrom(orig, r.val, Tail(patches))
               ELSE [ok |-> FALSE, val |-> orig]

applyPatches(state, patches) == ApplyFrom(state, state, patches)

\* ---------------------------------------------------------------- recipes
\* the recipes a caller may stage on store s:
\*   bump: const e = draft[root][ent]; if (!e) return; e[field] = next(e[field])
\*   add : draft[root][ent] = { field: 0 }
\*   del : delete draft[root][ent]
\* (the store actions of task-store.ts: moveTask and updateTaskTitle guard
\* and assign one field, createTask adds an entity, deleteTask deletes one;
\* the runs explored stage bump and add)
Recipes(s) ==
  {[kind |-> "bump", ent |-> e] : e \in EntKeys(s)}
    \cup (IF s = "taskStore"
            THEN {[kind |-> "add", ent |-> "t3"]}
            ELSE {})

NoPatches(base) == [next |-> base, patches |-> <<>>, inversePatches |-> <<>>]

\* immer produceWithPatches(base, recipe) for the recipes above: the next
\* value with the forward and the inverse patches immer records for it
produceWithPatches(s, base, recipe) ==
  LET root == RootKey(s)
      ents == base[root]
      e    == recipe.ent
      f    == FieldOf(s)
  IN
  CASE recipe.kind = "bump" ->
         IF e \notin DOMAIN ents
           THEN NoPatches(base)
           ELSE LET old == ents[e][f]
                    new == (old + 1) % NVals
                    p   == [op |-> "replace", path |-> <<root, e, f>>, value |-> new]
                    ip  == [op |-> "replace", path |-> <<root, e, f>>, value |-> old]
                IN  [next |-> applyPatches(base, <<p>>).val,
                     patches |-> <<p>>, inversePatches |-> <<ip>>]
    [] recipe.kind = "add" ->
         IF e \in DOMAIN ents
           THEN LET p  == [op |-> "replace", path |-> <<root, e>>, value |-> NewEntity(s)]
                    ip == [op |-> "replace", path |-> <<root, e>>, value |-> ents[e]]
                IN  [next |-> applyPatches(base, <<p>>).val,
                     patches |-> <<p>>, inversePatches |-> <<ip>>]
           ELSE LET p  == [op |-> "add", path |-> <<root, e>>, value |-> NewEntity(s)]
                    ip == [op |-> "remove", path |-> <<root, e>>]
                IN  [next |-> applyPatches(base, <<p>>).val,
                     patches |-> <<p>>, inversePatches |-> <<ip>>]
    [] recipe.kind = "del" ->
         IF e \notin DOMAIN ents
           THEN NoPatches(base)
           ELSE LET p  == [op |-> "remove", path |-> <<root, e>>]
                    ip == [op |-> "add", path |-> <<root, e>>, value |-> ents[e]]
                IN  [next |-> applyPatches(base, <<p>>).val,
                     patches |-> <<p>>, inversePatches |-> <<ip>>]

\* ---------------------------------------------------------- path utilities
\* a JS string as the sequence of its characters
Chars(k) ==
  CASE k = "tasks"    -> <<"t", "a", "s", "k", "s">>
    [] k = "users"    -> <<"u", "s", "e", "r", "s">>
    [] k = "t1"       -> <<"t", "1">>
    [] k = "t3"       -> <<"t", "3">>
    [] k = "t10"      -> <<"t", "1", "0">>
    [] k = "status"   -> <<"s", "t", "a", "t", "u", "s">>
    [] k = "u1"       -> <<"u", "1">>
    [] k = "title"    -> <<"t", "i", "t", "l", "e">>
    [] k = "assigned" -> <<"a", "s", "s", "i", "g", "n", "e", "d">>

\* Array.prototype.join(".") over path segments
RECURSIVE Join(_)
Join(segs) ==
  IF segs = <<>> THEN <<>>
  ELSE IF Len(segs) = 1 THEN Chars(segs[1])
  ELSE Chars(segs[1]) \o <<".">> \o Join(Tail(segs))

\* String.prototype.startsWith
startsWith(a, b) == Len(b) <= Len(a) /\ SubSeq(a, 1, Len(b)) = b

Min(a, b) == IF a <= b THEN a ELSE b

Contains(seq, x) == \E i \in 1..Len(seq) : seq[i] = x

\* extractAffectedPaths: the entity paths (first min(len, 2) segments joined
\* by ".") of the patches, without duplicates, in first-occurrence order
RECURSIVE ExtractFrom(_, _)
ExtractFrom(patches, acc) ==
  IF patches = <<>> THEN acc
  ELSE LET path       == Head(patches).path
           depth      == Min(Len(path), 2)
           entityPath == Join(SubSeq(path, 1, depth))
       IN  ExtractFrom(Tail(patches),
                       IF Contains(acc, entityPath) THEN acc
                       ELSE Append(acc, entityPath))

\* the paths of the patches joined in full, without the depth cap
RECURSIVE FullFrom(_, _)
FullFrom(patches, acc) ==
  IF patches = <<>> THEN acc
  ELSE FullFrom(Tail(patches),
                IF Contains(acc, Join(Head(patches).path)) THEN acc
                ELSE Append(acc, Join(Head(patches).path)))

extractFullPaths(patches) == FullFrom(patches, <<>>)

extractAffectedPaths(patches) == ExtractFrom(patches, <<>>)

\* a prefix test that does not look for the "." after the prefix
hasPathConflictAnyPrefix(pathsA, pathsB) ==
  \E i \in 1..Len(pathsA) : \E j \in 1..Len(pathsB) :
    startsWith(pathsA[i], pathsB[j]) \/ startsWith(pathsB[j], pathsA[i])

\* hasPathConflict: some path of A equals, prefixes or is prefixed by some
\* path of B, the prefix ending on a "."
hasPathConflict(pathsA, pathsB) ==
  \E i \in 1..Len(pathsA) : \E j \in 1..Len(pathsB) :
    LET a == pathsA[i]
        b == pathsB[j]
    IN  a = b \/ startsWith(a, b \o <<".">>) \/ startsWith(b, a \o <<".">>)

\* --------------------------------------------------------------- variables
VARIABLES
  now,                \* Date.now()
  store,              \* store |-> its current value (StoreApi.getState())
  maxRetries,         \* options.maxRetries of the engine
  mutationIdCounter,  \* module-level id counter
  muts,               \* the Mutation objects ever created, by id
  queue,              \* MutationQueue.queue, as ids in enqueue order
  inflightIds,        \* MutationQueue.inflightIds
  history,            \* MutationQueue.history, newest first
  calls,              \* per mutation id: remote calls awaited and not yet settled
  tx,                 \* the Transaction object of each slot
  err,                \* the error thrown by the last call, "" if none
  notifs,             \* onQueueChange deliveries of the last turn, in order
  cbs,                \* per mutation id: onMutationSuccess/onMutationError calls so far
  appended,           \* per mutation id: statuses appended to history so far
  applied,            \* per mutation id and store: whether the forward delta was last applied (TRUE) or undone
  cleared,            \* whether clear() was ever called
  invoked,            \* per mutation id: how many times remoteFn was called
  seen,               \* per mutation id: the status last reported and the status changes reported so far
  probe               \* a call of an exported path utility: its arguments and, once made, its result

vars == <<now, store, maxRetries, mutationIdCounter, muts, queue, inflightIds,
          history, calls, tx, err, notifs, cbs, appended, applied, cleared,
          invoked, seen, probe>>

\* history cap of the queue
maxHistory == 20

\* maxRetries of the engine instance the stores share
EngineMaxRetries == 0

\* ---------------------------------------------------------------- snapshot
RECURSIVE PatchCount(_)
PatchCount(entries) ==
  IF entries = <<>> THEN 0
  ELSE Len(Head(entries).patches) + PatchCount(Tail(entries))

toSnapshot(m) ==
  [id |-> m.id, timestamp |-> m.timestamp, status |-> m.status,
   patchCount |-> PatchCount(m.storePatches),
   affectedPaths |-> m.affectedPaths,
   retryCount |-> m.retryCount, maxRetries |-> m.maxRetries]

\* Map.has / Map.get on a storePatches map kept in insertion order
HasEntry(m, s) == \E i \in 1..Len(m.storePatches) : m.storePatches[i].store = s

EntryOf(m, s) ==
  m.storePatches[CHOOSE i \in 1..Len(m.storePatches) : m.storePatches[i].store = s]

\* ------------------------------------------------------------ queue state
\* The queue's operations are written over a record Q of the fields they
\* read and write, so that a handler is the composition of its statements.
QState ==
  [store |-> store, muts |-> muts, queue |-> queue, inflightIds |-> inflightIds,
   history |-> history, calls |-> calls, notifs |-> <<>>, cbs |-> cbs,
   appended |-> appended, applied |-> applied, invoked |-> invoked,
   seen |-> seen, threw |-> FALSE]

\* what an observer has been told about a mutation before any report
NotSeen == [last |-> "none", steps |-> {}]

\* the observer is handed a snapshot of mutation id with this status
Report(sn, id, status) ==
  IF sn[id].last = status THEN sn
  ELSE [sn EXCEPT ![id] = [last |-> status, steps |-> @.steps \cup {<<@.last, status>>}]]

\* the observer is handed the snapshots of a list, first to last
RECURSIVE ReportAll(_, _)
ReportAll(sn, snapshots) ==
  IF snapshots = <<>> THEN sn
  ELSE ReportAll(Report(sn, Head(snapshots).id, Head(snapshots).status), Tail(snapshots))

\* the live part of the list notify builds: this.queue.map(toSnapshot)
LiveSnapshots(Q) == [i \in 1..Len(Q.queue) |-> toSnapshot(Q.muts[Q.queue[i]])]

\* MutationQueue.notify: the observer receives live snapshots then history
notify(Q) ==
  [Q EXCEPT !.notifs =
     Append(@, [live  |-> LiveSnapshots(Q),
                hist  |-> Q.history,
                store |-> Q.store]),
            !.seen = ReportAll(@, LiveSnapshots(Q) \o Q.history)]

\* a history that is never cut back to maxHistory
addToHistoryUncapped(Q, snapshot) ==
  [Q EXCEPT !.history = <<snapshot>> \o @,
            !.appended[snapshot.id] = Append(@, snapshot.status)]

\* MutationQueue.addToHistory
addToHistory(Q, snapshot) ==
  LET h == <<snapshot>> \o Q.history
  IN  [Q EXCEPT !.history = IF Len(h) > maxHistory THEN SubSeq(h, 1, maxHistory) ELSE h,
                !.appended[snapshot.id] = Append(@, snapshot.status)]

\* this.queue = this.queue.filter(...), keep being the ids that pass
FilterQueue(Q, keep) ==
  LET Keep(id) == id \in keep
  IN  [Q EXCEPT !.queue = SelectSeq(Q.queue, Keep)]

\* executeMutation up to its await: mark in flight, notify, call remoteFn
executeMutationStart(Q, id) ==
  LET Q1 == [Q EXCEPT !.inflightIds = @ \cup {id}, !.muts[id].status = "inflight"]
      Q2 == notify(Q1)
  IN  [Q2 EXCEPT !.calls[id] = @ + 1, !.invoked[id] = @ + 1]

RECURSIVE ExecuteAll(_, _)
ExecuteAll(Q, ids) ==
  IF ids = <<>> THEN Q
  ELSE ExecuteAll(executeMutationStart(Q, Head(ids)), Tail(ids))

\* a dispatcher that holds a pending mutation back while an earlier live
\* mutation with a conflicting affected path is pending or in flight
processNextSerialized(Q) ==
  LET Blocked(id) ==
        \E i \in 1..Len(Q.queue) :
          /\ Q.queue[i] < id
          /\ Q.muts[Q.queue[i]].status \in {"pending", "inflight"}
          /\ hasPathConflict(Q.muts[Q.queue[i]].affectedPaths, Q.muts[id].affectedPaths)
      IsPending(id) ==
        Q.muts[id].status = "pending" /\ id \notin Q.inflightIds /\ ~Blocked(id)
  IN  ExecuteAll(Q, SelectSeq(Q.queue, IsPending))

\* a dispatch that starts every live mutation not yet finished, whether or
\* not its remote call is already awaited
processNextUnmarked(Q) ==
  LET IsOpen(id) == Q.muts[id].status \in {"pending", "inflight"}
  IN  ExecuteAll(Q, SelectSeq(Q.queue, IsOpen))

\* MutationQueue.processNext
processNext(Q) ==
  LET IsPending(id) == Q.muts[id].status = "pending" /\ id \notin Q.inflightIds
  IN  ExecuteAll(Q, SelectSeq(Q.queue, IsPending))

\* MutationQueue.enqueue (the Mutation object mutation is created by commit)
enqueue(Q, mutation) ==
  LET Q1 == [Q EXCEPT !.muts = Append(@, mutation),
                      !.queue = Append(@, mutation.id),
                      !.calls = Append(@, 0),
                      !.cbs = Append(@, <<>>),
                      !.appended = Append(@, <<>>),
                      !.invoked = Append(@, 0),
                      !.seen = Append(@, NotSeen),
                      !.applied = Append(@, [s \in {mutation.storePatches[i].store :
                                                    i \in 1..Len(mutation.storePatches)} |-> TRUE])]
  IN  processNext(notify(Q1))

\* ---------------------------------------------------------------- rollback
\* Array.prototype.sort((a, b) => b.timestamp - a.timestamp): stable, so
\* mutations of equal timestamp keep their queue order
RECURSIVE InsertDesc(_, _, _)
InsertDesc(ms, sorted, id) ==
  IF sorted = <<>> THEN <<id>>
  ELSE IF ms[Head(sorted)].timestamp < ms[id].timestamp
    THEN <<id>> \o sorted
    ELSE <<Head(sorted)>> \o InsertDesc(ms, Tail(sorted), id)

RECURSIVE SortDesc(_, _, _)
SortDesc(ms, ids, acc) ==
  IF ids = <<>> THEN acc
  ELSE SortDesc(ms, Tail(ids), InsertDesc(ms, acc, Head(ids)))

\* remaining: the live mutations other than the failed one that are not
\* marked failed, newest timestamp first
Remaining(Q, fid) ==
  LET Keep(id) == id # fid /\ Q.muts[id].status # "failed"
  IN  SortDesc(Q.muts, SelectSeq(Q.queue, Keep), <<>>)

RECURSIVE Reverse(_)
Reverse(seq) == IF seq = <<>> THEN <<>> ELSE Append(Reverse(Tail(seq)), Head(seq))

\* Set insertion of the store keys of one storePatches map
RECURSIVE AddStoreKeys(_, _)
AddStoreKeys(acc, entries) ==
  IF entries = <<>> THEN acc
  ELSE AddStoreKeys(IF Contains(acc, Head(entries).store) THEN acc
                    ELSE Append(acc, Head(entries).store),
                    Tail(entries))

RECURSIVE AddStoresOf(_, _, _)
AddStoresOf(ms, acc, ids) ==
  IF ids = <<>> THEN acc
  ELSE AddStoresOf(ms, AddStoreKeys(acc, ms[Head(ids)].storePatches), Tail(ids))

\* allStores: the failed mutation's stores, then those of remaining, in
\* insertion order
AllStores(Q, fid, remaining) ==
  AddStoresOf(Q.muts, AddStoreKeys(<<>>, Q.muts[fid].storePatches), remaining)

\* the undo loop on store s: the inverse patches of remaining, in its order;
\* applyPatches is not guarded here, so a throw leaves rollback
RECURSIVE UndoLoop(_, _, _, _)
UndoLoop(ms, s, state, ids) ==
  IF ids = <<>> THEN [ok |-> TRUE, val |-> state]
  ELSE IF ~HasEntry(ms[Head(ids)], s)
    THEN UndoLoop(ms, s, state, Tail(ids))
    ELSE LET r == applyPatches(state, EntryOf(ms[Head(ids)], s).inversePatches)
         IN  IF r.ok THEN UndoLoop(ms, s, r.val, Tail(ids))
             ELSE [ok |-> FALSE, val |-> state]

\* the failed mutation's own undo on store s
UndoFailed(ms, s, state, fid) ==
  IF HasEntry(ms[fid], s)
    THEN applyPatches(state, EntryOf(ms[fid], s).inversePatches)
    ELSE [ok |-> TRUE, val |-> state]

\* the catch branch of the redo loop: the survivor is dropped as a dependent
DropDependent(Q, id) ==
  LET Q1 == [Q EXCEPT !.muts[id].status = "failed", !.inflightIds = @ \ {id}]
      Q2 == addToHistory(Q1, [toSnapshot(Q1.muts[id]) EXCEPT !.status = "rolled-back"])
  IN  [Q2 EXCEPT !.cbs[id] =
         Append(@, [kind |-> "error", status |-> toSnapshot(Q2.muts[id]).status,
                    error |-> "dependent"]),
                 !.seen = Report(@, id, toSnapshot(Q2.muts[id]).status)]

\* the redo loop on store s: the forward patches of remaining, oldest first;
\* yields the queue state and the reconciled value
RECURSIVE RedoLoop(_, _, _, _)
RedoLoop(Q, s, state, ids) ==
  IF ids = <<>> THEN [q |-> Q, val |-> state]
  ELSE LET id == Head(ids)
       IN  IF ~HasEntry(Q.muts[id], s)
             THEN RedoLoop(Q, s, state, Tail(ids))
             ELSE LET r == applyPatches(state, EntryOf(Q.muts[id], s).patches)
                  IN  IF r.ok
                        THEN RedoLoop([Q EXCEPT !.applied[id][s] = TRUE], s, r.val, Tail(ids))
                        ELSE RedoLoop([DropDependent(Q, id) EXCEPT !.applied[id][s] = FALSE],
                                      s, state, Tail(ids))

\* the undone flags of one store's undo phase
RECURSIVE MarkUndone(_, _, _)
MarkUndone(Q, s, ids) ==
  IF ids = <<>> THEN Q
  ELSE MarkUndone(IF HasEntry(Q.muts[Head(ids)], s)
                    THEN [Q EXCEPT !.applied[Head(ids)][s] = FALSE] ELSE Q,
                  s, Tail(ids))

\* the undo phase on store s: u1 is the outcome of the undo loop, followed
\* by the failed mutation's own undo
UndoBoth(ms, s, fid, u1) == IF u1.ok THEN UndoFailed(ms, s, u1.val, fid) ELSE u1

\* store.setState(state) with the outcome rd of the redo loop
SetState(s, rd) == [rd.q EXCEPT !.store[s] = rd.val]

\* one pass of "for (const store of allStores)": u2 is the outcome of the
\* undo phase on store s; a throw there leaves rollback before setState
RollbackStore(Q, fid, remaining, s, u2) ==
  IF ~u2.ok
    THEN [Q EXCEPT !.threw = TRUE]
    ELSE SetState(s, RedoLoop(MarkUndone(Q, s, <<fid>> \o remaining), s, u2.val,
                              Reverse(remaining)))

\* the loop over allStores, for the stores left
RECURSIVE RollbackStores(_, _, _, _)
RollbackNext(Q1, fid, remaining, stores) ==
  IF Q1.threw THEN Q1 ELSE RollbackStores(Q1, fid, remaining, Tail(stores))

RollbackStores(Q, fid, remaining, stores) ==
  IF stores = <<>> THEN Q
  ELSE RollbackNext(
         RollbackStore(Q, fid, remaining, Head(stores),
                       UndoBoth(Q.muts, Head(stores), fid,
                                UndoLoop(Q.muts, Head(stores),
                                         Q.store[Head(stores)], remaining))),
         fid, remaining, stores)

\* MutationQueue.rollback, the multi-store full rebase: the loop over
\* allStores, then the sweep of the mutations marked failed and notify
Sweep(Q1) ==
  IF Q1.threw THEN Q1
  ELSE notify(FilterQueue(Q1, {id \in DOMAIN Q1.muts : Q1.muts[id].status # "failed"}))

RollbackFrom(Q, fid, remaining) ==
  Sweep(RollbackStores(Q, fid, remaining, AllStores(Q, fid, remaining)))

rollback(Q, fid) == RollbackFrom(Q, fid, Remaining(Q, fid))

\* ------------------------------------------------- executeMutation, resumed
\* the remote call of mutation id resolved: the rest of the try block
onResolved(Q, id) ==
  LET Q1 == [Q EXCEPT !.calls[id] = @ - 1,
                      !.muts[id].status = "success",
                      !.inflightIds = @ \ {id}]
      Q2 == addToHistory(Q1, toSnapshot(Q1.muts[id]))
      Q3 == notify(FilterQueue(Q2, DOMAIN Q2.muts \ {id}))
  IN  [Q3 EXCEPT !.cbs[id] =
         Append(@, [kind |-> "success", status |-> Q3.muts[id].status, error |-> ""]),
                 !.seen = Report(@, id, Q3.muts[id].status)]

\* the end of the catch block: the rolled-back snapshot goes to history, the
\* mutation leaves the queue, notify, onMutationError(snapshot, error)
Retire(Q3, id, e, snapshot) ==
  [notify(FilterQueue(addToHistory(Q3, snapshot), DOMAIN Q3.muts \ {id})) EXCEPT
     !.cbs[id] = Append(@, [kind |-> "error", status |-> snapshot.status, error |-> e]),
     !.seen = Report(@, id, snapshot.status)]

\* the catch block after this.rollback(mutation): nothing more runs if
\* rollback threw
AfterRollback(Q3, id, e) ==
  IF Q3.threw THEN Q3
  ELSE Retire(Q3, id, e, [toSnapshot(Q3.muts[id]) EXCEPT !.status = "rolled-back"])

\* the remote call of mutation id rejected with error e: the catch block
onRejected(Q, id, e) ==
  LET Q1 == [Q EXCEPT !.calls[id] = @ - 1, !.muts[id].retryCount = @ + 1]
  IN  IF Q1.muts[id].retryCount <= Q1.muts[id].maxRetries
        THEN processNext(notify([Q1 EXCEPT !.muts[id].status = "pending",
                                           !.inflightIds = @ \ {id}]))
        ELSE AfterRollback(rollback(notify([Q1 EXCEPT !.muts[id].status = "failed",
                                                      !.inflightIds = @ \ {id}]), id),
                           id, e)

\* a clear() that does not tell the observer
clearSilently(Q) == [Q EXCEPT !.queue = <<>>, !.history = <<>>, !.inflightIds = {}]

\* a clear() that empties the live queue and the markers but not the history
clearKeepHistory(Q) == notify([Q EXCEPT !.queue = <<>>, !.inflightIds = {}])

\* MutationQueue.clear
clear(Q) ==
  notify([Q EXCEPT !.queue = <<>>, !.history = <<>>, !.inflightIds = {}])

\* MutationQueue.hasPending
hasPending ==
  \E i \in 1..Len(queue) : muts[queue[i]].status \in {"pending", "inflight"}

\* ------------------------------------------------------------- Transaction
TxSlots == 1..NumTx

\* new Transaction(name, enqueueFn, maxRetries, defaultStore)
NewTx(d) ==
  [defaultStore |-> d, records |-> <<>>, workingStates |-> <<>>,
   hasMutation |-> FALSE, committed |-> FALSE,
   enqueued |-> FALSE,   \* commit() reached enqueueFn
   pre |-> <<>>,         \* store |-> its value before the first recorded set on it
   dropped |-> FALSE]    \* a set() returned at patches.length === 0

NoTx == [NewTx("null") EXCEPT !.committed = TRUE, !.enqueued = TRUE]

\* Map.set / Map.delete on a map held as a function
MapSet(m, k, v) == [x \in (DOMAIN m) \cup {k} |-> IF x = k THEN v ELSE m[x]]

MapDelete(m, k) == [x \in (DOMAIN m) \ {k} |-> m[x]]

\* a set() without the patches.length === 0 return: the empty result is
\* staged and recorded like any other
SetOnKeepEmpty(t, st, s, recipe, flush) ==
  LET baseState == IF s \in DOMAIN t.workingStates THEN t.workingStates[s] ELSE st[s]
      r == produceWithPatches(s, baseState, recipe)
  IN  [t |-> [t EXCEPT
         !.workingStates = IF flush THEN MapDelete(@, s) ELSE MapSet(@, s, r.next),
         !.records = Append(@, [store |-> s, patches |-> r.patches,
                                inversePatches |-> r.inversePatches,
                                flushed |-> flush]),
         !.pre = IF s \in DOMAIN @ THEN @ ELSE MapSet(@, s, st[s])],
       store |-> IF flush THEN [st EXCEPT ![s] = r.next] ELSE st]

\* Transaction.set, past its checks: stage recipe on store s
SetOn(t, st, s, recipe, flush) ==
  LET baseState == IF s \in DOMAIN t.workingStates THEN t.workingStates[s] ELSE st[s]
      r == produceWithPatches(s, baseState, recipe)
  IN  IF Len(r.patches) = 0
        THEN [t |-> [t EXCEPT !.dropped = TRUE], store |-> st]
        ELSE [t |-> [t EXCEPT
                 !.workingStates = IF flush THEN MapDelete(@, s) ELSE MapSet(@, s, r.next),
                 !.records = Append(@, [store |-> s, patches |-> r.patches,
                                        inversePatches |-> r.inversePatches,
                                        flushed |-> flush]),
                 !.pre = IF s \in DOMAIN @ THEN @ ELSE MapSet(@, s, st[s])],
              store |-> IF flush THEN [st EXCEPT ![s] = r.next] ELSE st]

\* commit's flush loop: each record not yet flushed is applied to the
\* store's current value; applyPatches is not guarded
RECURSIVE FlushLoop(_, _, _)
FlushLoop(recs, i, st) ==
  IF i > Len(recs) THEN [ok |-> TRUE, records |-> recs, store |-> st]
  ELSE IF recs[i].flushed THEN FlushLoop(recs, i + 1, st)
  ELSE LET r == applyPatches(st[recs[i].store], recs[i].patches)
       IN  IF r.ok
             THEN FlushLoop([recs EXCEPT ![i].flushed = TRUE], i + 1,
                            [st EXCEPT ![recs[i].store] = r.val])
             ELSE [ok |-> FALSE, records |-> recs, store |-> st]

\* commit's merge of the records by store, in stage order
RECURSIVE MergeRecords(_, _)
MergeRecords(recs, acc) ==
  IF recs = <<>> THEN acc
  ELSE LET rec == Head(recs)
       IN  IF \E i \in 1..Len(acc) : acc[i].store = rec.store
             THEN LET i == CHOOSE j \in 1..Len(acc) : acc[j].store = rec.store
                  IN  MergeRecords(Tail(recs),
                        [acc EXCEPT ![i].patches = @ \o rec.patches,
                                    ![i].inversePatches = @ \o rec.inversePatches])
             ELSE MergeRecords(Tail(recs),
                    Append(acc, [store |-> rec.store, patches |-> rec.patches,
                                 inversePatches |-> rec.inversePatches]))

RECURSIVE AllAffectedPaths(_)
AllAffectedPaths(entries) ==
  IF entries = <<>> THEN <<>>
  ELSE extractAffectedPaths(Head(entries).patches) \o AllAffectedPaths(Tail(entries))

\* the Mutation object commit builds
NewMutation(t, id, ts, mr) ==
  LET storePatches == MergeRecords(t.records, <<>>)
  IN  [id |-> id, timestamp |-> ts, status |-> "pending",
       storePatches |-> storePatches,
       affectedPaths |-> AllAffectedPaths(storePatches),
       retryCount |-> 0, maxRetries |-> mr,
       pre |-> t.pre]

\* ----------------------------------------------------------------- actions
Install(Q) ==
  /\ store' = Q.store
  /\ muts' = Q.muts
  /\ queue' = Q.queue
  /\ inflightIds' = Q.inflightIds
  /\ history' = Q.history
  /\ calls' = Q.calls
  /\ notifs' = Q.notifs
  /\ cbs' = Q.cbs
  /\ appended' = Q.appended
  /\ applied' = Q.applied
  /\ invoked' = Q.invoked
  /\ seen' = Q.seen

QueueUnchanged ==
  UNCHANGED <<muts, queue, inflightIds, history, calls, cbs, appended, applied,
              invoked, seen>>

\* the state after createOptimisticEngine(options) and the stores' creation,
\* but for options.maxRetries
InitEngine ==
  /\ now = 0
  /\ store = [s \in StoreSet |-> InitialState(s)]
  /\ mutationIdCounter = 0
  /\ muts = <<>>
  /\ queue = <<>>
  /\ inflightIds = {}
  /\ history = <<>>
  /\ calls = <<>>
  /\ tx = [k \in TxSlots |-> NoTx]
  /\ err = ""
  /\ notifs = <<>>
  /\ cbs = <<>>
  /\ appended = <<>>
  /\ applied = <<>>
  /\ cleared = FALSE
  /\ invoked = <<>>
  /\ seen = <<>>

\* no path utility is being called
NoProbe == [fn |-> "none", a |-> <<>>, b |-> <<>>, out |-> <<>>]

Init == maxRetries = EngineMaxRetries /\ InitEngine /\ probe = NoProbe

\* the set() calls recorded so far, in the mutations and in the open transactions
RECURSIVE SumPatchCount(_)
SumPatchCount(ms) ==
  IF ms = <<>> THEN 0 ELSE PatchCount(Head(ms).storePatches) + SumPatchCount(Tail(ms))

RECURSIVE SumOpenRecords(_)
SumOpenRecords(ks) ==
  IF ks = {} THEN 0
  ELSE LET k == CHOOSE x \in ks : TRUE
       IN  (IF tx[k].enqueued THEN 0 ELSE Len(tx[k].records)) + SumOpenRecords(ks \ {k})

\* whether slot k may record one more set() within the bounds
MaySet(k) ==
  \/ tx[k].committed
  \/ /\ Len(tx[k].records) < MaxSets
     /\ SumPatchCount(muts) + SumOpenRecords(TxSlots) < MaxPatches

\* no transaction is between its first recorded set and its commit
TxIdle == \A k \in TxSlots : tx[k].records = <<>> \/ tx[k].committed

\* engine.createTransaction(name, defaultStore?) into slot k
CreateTransaction(k, d) ==
  /\ tx[k].enqueued \/ (tx[k].records = <<>> /\ ~tx[k].committed)
  /\ tx' = [tx EXCEPT ![k] = NewTx(d)]
  /\ err' = ""
  /\ notifs' = <<>>
  /\ UNCHANGED <<now, store, maxRetries, probe, mutationIdCounter, cleared>>
  /\ QueueUnchanged

\* tx.set(recipe): the default-store overload
TxSetDefault(k, recipe) ==
  /\ notifs' = <<>>
  /\ IF tx[k].defaultStore = "null"
       THEN /\ err' = "NoDefaultStore"
            /\ UNCHANGED <<tx, store>>
       ELSE IF tx[k].committed
         THEN /\ err' = "ClosedTransaction"
              /\ UNCHANGED <<tx, store>>
         ELSE LET r == SetOn(tx[k], store, tx[k].defaultStore, recipe, TRUE)
              IN  /\ err' = ""
                  /\ tx' = [tx EXCEPT ![k] = r.t]
                  /\ store' = r.store
  /\ UNCHANGED <<now, maxRetries, probe, mutationIdCounter, cleared>>
  /\ QueueUnchanged

\* tx.set(store, recipe, { flush })
TxSetStore(k, s, recipe, flush) ==
  /\ notifs' = <<>>
  /\ IF tx[k].committed
       THEN /\ err' = "ClosedTransaction"
            /\ UNCHANGED <<tx, store>>
       ELSE LET r == SetOn(tx[k], store, s, recipe, flush)
            IN  /\ err' = ""
                /\ tx' = [tx EXCEPT ![k] = r.t]
                /\ store' = r.store
  /\ UNCHANGED <<now, maxRetries, probe, mutationIdCounter, cleared>>
  /\ QueueUnchanged

\* tx.mutation = fn
TxSetMutation(k) ==
  /\ ~tx[k].hasMutation
  /\ tx' = [tx EXCEPT ![k].hasMutation = TRUE]
  /\ err' = ""
  /\ notifs' = <<>>
  /\ UNCHANGED <<now, store, maxRetries, probe, mutationIdCounter, cleared>>
  /\ QueueUnchanged

\* a commit() that leaves the slot, the stores and the queue as they are,
\* raising e
CommitRefused(e) ==
  /\ err' = e
  /\ notifs' = <<>>
  /\ UNCHANGED <<now, store, maxRetries, probe, mutationIdCounter, tx, cleared>>
  /\ QueueUnchanged

\* a commit() that flushes, builds the mutation and enqueues it whatever the
\* transaction's flags are
CommitAnyway(k) ==
  LET fl == FlushLoop(tx[k].records, 1, store) IN
  \E ts \in now..Min(now + 1, MaxClock) :
    LET id == mutationIdCounter + 1
        t1 == [tx[k] EXCEPT !.committed = TRUE, !.records = fl.records,
                            !.workingStates = <<>>, !.enqueued = TRUE]
    IN  /\ fl.ok
        /\ mutationIdCounter' = id
        /\ now' = ts
        /\ tx' = [tx EXCEPT ![k] = t1]
        /\ err' = ""
        /\ Install(enqueue([QState EXCEPT !.store = fl.store],
                            NewMutation(t1, id, ts, maxRetries)))
        /\ UNCHANGED <<maxRetries, probe, cleared>>

\* a commit() that does not test for the remote function
TxCommitNoMutationCheck(k) ==
  IF tx[k].committed THEN CommitRefused("")
  ELSE IF Len(tx[k].records) = 0 THEN CommitRefused("EmptyTransaction")
  ELSE CommitAnyway(k)

\* a commit() that does not test whether the transaction is committed
TxCommitAgain(k) ==
  IF Len(tx[k].records) = 0 THEN CommitRefused("EmptyTransaction")
  ELSE IF ~tx[k].hasMutation THEN CommitRefused("NoMutation")
  ELSE CommitAnyway(k)

\* tx.commit(); Date.now() is at or after its last reading
TxCommit(k) ==
  LET t == tx[k] IN
  IF t.committed
    THEN /\ err' = ""
         /\ notifs' = <<>>
         /\ UNCHANGED <<now, store, maxRetries, probe, mutationIdCounter, tx, cleared>>
         /\ QueueUnchanged
  ELSE IF Len(t.records) = 0
    THEN /\ err' = "EmptyTransaction"
         /\ notifs' = <<>>
         /\ UNCHANGED <<now, store, maxRetries, probe, mutationIdCounter, tx, cleared>>
         /\ QueueUnchanged
  ELSE IF ~t.hasMutation
    THEN /\ err' = "NoMutation"
         /\ notifs' = <<>>
         /\ UNCHANGED <<now, store, maxRetries, probe, mutationIdCounter, tx, cleared>>
         /\ QueueUnchanged
  ELSE LET fl == FlushLoop(t.records, 1, store)
       IN  IF ~fl.ok
             THEN /\ err' = "PatchApplyError"
                  /\ notifs' = <<>>
                  /\ tx' = [tx EXCEPT ![k].committed = TRUE, ![k].records = fl.records]
                  /\ store' = fl.store
                  /\ UNCHANGED <<now, maxRetries, probe, mutationIdCounter, cleared>>
                  /\ QueueUnchanged
             ELSE \E ts \in now..Min(now + 1, MaxClock) :
                  LET id == mutationIdCounter + 1
                      t1 == [t EXCEPT !.committed = TRUE, !.records = fl.records,
                                      !.workingStates = <<>>, !.enqueued = TRUE]
                      m  == NewMutation(t1, id, ts, maxRetries)
                  IN  /\ mutationIdCounter' = id
                      /\ now' = ts
                      /\ tx' = [tx EXCEPT ![k] = t1]
                      /\ err' = ""
                      /\ Install(enqueue([QState EXCEPT !.store = fl.store], m))
                      /\ UNCHANGED <<maxRetries, probe, cleared>>

\* the awaited remote call of mutation id resolves
Resolve(id) ==
  /\ calls[id] > 0
  /\ \E Q \in {onResolved(QState, id)} : Install(Q)
  /\ err' = ""
  /\ UNCHANGED <<now, maxRetries, probe, mutationIdCounter, tx, cleared>>

\* the awaited remote call of mutation id rejects
Reject(id) ==
  /\ calls[id] > 0
  /\ \E Q \in {onRejected(QState, id, "E")} :
       /\ Install(Q)
       /\ err' = IF Q.threw THEN "PatchApplyError" ELSE ""
  /\ UNCHANGED <<now, maxRetries, probe, mutationIdCounter, tx, cleared>>

\* engine.queue.clear()
Clear ==
  /\ Install(clear(QState))
  /\ cleared' = TRUE
  /\ err' = ""
  /\ UNCHANGED <<now, maxRetries, probe, mutationIdCounter, tx>>

\* tx is being staged: created, not yet given its remote function
Staging(k) == ~tx[k].committed /\ ~tx[k].hasMutation

\* entity e of the task store was created by a recorded set() (createTask
\* draws a fresh client id for every call, so an id is created at most once)
Created(e) ==
  LET Adds(ps) == \E i \in 1..Len(ps) : ps[i].op = "add" /\ ps[i].path = <<"tasks", e>>
  IN  \/ \E id \in 1..Len(muts) : \E i \in 1..Len(muts[id].storePatches) :
            Adds(muts[id].storePatches[i].patches)
      \/ \E k \in TxSlots : \E i \in 1..Len(tx[k].records) : Adds(tx[k].records[i].patches)

\* slot k holds a Transaction object the caller created
Held(k) == tx[k] # NoTx

\* tx has its remote function and is not yet committed
Committable(k) == tx[k].hasMutation /\ ~tx[k].committed

\* one more mutation may be committed within the bounds
MayCommit == mutationIdCounter < MaxMutations

\* the recipe can be staged by a store action now
Fresh(r) == r.kind = "add" => ~Created(r.ent)

\* The program of the repository: every transaction is created on the task
\* store and is staged, given its remote function and committed, in this
\* order, inside one synchronous store action (task-store.ts), so no remote
\* call settles while one is being built.
Next ==
  \/ \E k \in TxSlots : MayCommit /\ CreateTransaction(k, "taskStore")
  \/ \E k \in TxSlots : \E r \in Recipes("taskStore") :
       MaySet(k) /\ Staging(k) /\ Fresh(r) /\ TxSetDefault(k, r)
  \/ \E k \in TxSlots : \E r \in Recipes("userStore") :
       MaySet(k) /\ Staging(k) /\ TxSetStore(k, "userStore", r, TRUE)
  \/ \E k \in TxSlots : tx[k].records # <<>> /\ TxSetMutation(k)
  \/ \E k \in TxSlots : MayCommit /\ Committable(k) /\ TxCommit(k)
  \/ TxIdle /\ \E id \in 1..Len(muts) : Resolve(id)
  \/ TxIdle /\ \E id \in 1..Len(muts) : Reject(id)

Spec == Init /\ [][Next]_vars

\* The program with engine.queue.clear() called by its owner between store
\* actions, as the suite's beforeEach does; the runs explored stage task
\* store recipes and call clear() once.
NextClear ==
  \/ \E k \in TxSlots : MayCommit /\ CreateTransaction(k, "taskStore")
  \/ \E k \in TxSlots : \E r \in Recipes("taskStore") :
       MaySet(k) /\ Staging(k) /\ Fresh(r) /\ TxSetDefault(k, r)
  \/ \E k \in TxSlots : tx[k].records # <<>> /\ TxSetMutation(k)
  \/ \E k \in TxSlots : MayCommit /\ Committable(k) /\ TxCommit(k)
  \/ TxIdle /\ \E id \in 1..Len(muts) : Resolve(id)
  \/ TxIdle /\ \E id \in 1..Len(muts) : Reject(id)
  \/ TxIdle /\ ~cleared /\ Clear

SpecClear == Init /\ [][NextClear]_vars

\* An engine created with a retry budget: createOptimisticEngine({ maxRetries })
InitRetry == maxRetries \in 1..MaxBudget /\ InitEngine /\ probe = NoProbe

\* The program on an engine with a retry budget; the runs explored stage task
\* store recipes.
NextRetry ==
  \/ \E k \in TxSlots : MayCommit /\ CreateTransaction(k, "taskStore")
  \/ \E k \in TxSlots : \E r \in Recipes("taskStore") :
       MaySet(k) /\ Staging(k) /\ Fresh(r) /\ TxSetDefault(k, r)
  \/ \E k \in TxSlots : tx[k].records # <<>> /\ TxSetMutation(k)
  \/ \E k \in TxSlots : MayCommit /\ Committable(k) /\ TxCommit(k)
  \/ TxIdle /\ \E id \in 1..Len(muts) : Resolve(id)
  \/ TxIdle /\ \E id \in 1..Len(muts) : Reject(id)

SpecRetry == InitRetry /\ [][NextRetry]_vars

\* A long run of one store action at a time, each editing the title of t1
\* through the first Transaction slot and settling before the next; the
\* remote calls made while history is short all resolve.
NextHistory ==
  \/ mutationIdCounter < MaxRetired /\ queue = <<>> /\ CreateTransaction(1, "taskStore")
  \/ Staging(1) /\ tx[1].records = <<>> /\ TxSetDefault(1, [kind |-> "bump", ent |-> "t1"])
  \/ tx[1].records # <<>> /\ TxSetMutation(1)
  \/ mutationIdCounter < MaxRetired /\ Committable(1) /\ TxCommit(1)
  \/ TxIdle /\ \E id \in 1..Len(muts) : Resolve(id)
  \/ TxIdle /\ Len(history) >= maxHistory - 1 /\ \E id \in 1..Len(muts) : Reject(id)

SpecHistory == Init /\ [][NextHistory]_vars

\* The Transaction API called in any order through the first slot, on the
\* task store: transactions with and without a default store, set() with
\* and without flush, set() and commit() before and after commit(), commit()
\* with nothing staged or no remote function; the remote calls stay awaited.
NextApi ==
  \/ \E d \in {"taskStore", "null"} : MayCommit /\ CreateTransaction(1, d)
  \/ \E r \in Recipes("taskStore") : Held(1) /\ MaySet(1) /\ Fresh(r) /\ TxSetDefault(1, r)
  \/ \E r \in Recipes("taskStore") : \E flush \in BOOLEAN :
       Held(1) /\ MaySet(1) /\ Fresh(r) /\ TxSetStore(1, "taskStore", r, flush)
  \/ Held(1) /\ TxSetMutation(1)
  \/ Held(1) /\ MayCommit /\ TxCommit(1)

SpecApi == Init /\ [][NextApi]_vars

\* ------------------------------------------------------------ the observer
\* onQueueChange hands the observer [...queue.map(toSnapshot), ...history]:
\* the live snapshots are objects made for this delivery, the history
\* snapshots are the objects the history array holds, and every snapshot of
\* a mutation carries the mutation's own affectedPaths array.

\* nothing the engine holds has been written by the observer
Untouched ==
  /\ \A id \in 1..Len(muts) : ~Contains(muts[id].affectedPaths, "edited")
  /\ \A i \in 1..Len(history) : history[i].status # "edited"

\* snapshot.affectedPaths.push("edited") on a snapshot of mutation id the
\* observer received: the array is the mutation's and its history snapshots'
ObserverEditsPaths(id) ==
  /\ seen[id].last # "none"
  /\ muts' = [muts EXCEPT ![id].affectedPaths = Append(@, "edited")]
  /\ history' = [i \in 1..Len(history) |->
                   IF history[i].id = id
                     THEN [history[i] EXCEPT !.affectedPaths = Append(@, "edited")]
                     ELSE history[i]]
  /\ notifs' = <<>>
  /\ err' = ""
  /\ UNCHANGED <<now, store, maxRetries, probe, mutationIdCounter, queue, inflightIds, calls,
                 tx, cbs, appended, applied, cleared, invoked, seen>>

\* snapshot.status = "edited" on the history snapshot at index i the
\* observer received: the object is the one history holds
ObserverEditsHistory(i) ==
  /\ \E st \in {"none", "pending", "inflight", "failed", "success", "rolled-back"} :
       <<st, history[i].status>> \in seen[history[i].id].steps
  /\ history' = [history EXCEPT ![i].status = "edited"]
  /\ notifs' = <<>>
  /\ err' = ""
  /\ UNCHANGED <<now, store, maxRetries, probe, mutationIdCounter, muts, queue, inflightIds,
                 calls, tx, cbs, appended, applied, cleared, invoked, seen>>

\* The program of the repository on the task store, through the first
\* Transaction slot, with an observer that writes once to a snapshot it was
\* handed.
NextObserver ==
  \/ mutationIdCounter < MaxObserved /\ CreateTransaction(1, "taskStore")
  \/ \E r \in Recipes("taskStore") :
       MaySet(1) /\ Staging(1) /\ Fresh(r) /\ TxSetDefault(1, r)
  \/ tx[1].records # <<>> /\ TxSetMutation(1)
  \/ mutationIdCounter < MaxObserved /\ Committable(1) /\ TxCommit(1)
  \/ TxIdle /\ \E id \in 1..Len(muts) : Resolve(id)
  \/ TxIdle /\ \E id \in 1..Len(muts) : Reject(id)
  \/ Untouched /\ \E id \in 1..Len(muts) : ObserverEditsPaths(id)
  \/ Untouched /\ \E i \in 1..Len(history) : ObserverEditsHistory(i)

SpecObserver == Init /\ [][NextObserver]_vars

\* a store action of task-store.ts run from start to end: createTransaction
\* on the task store, one set with the default flush, mutation, commit
StoreAction(recipe) ==
  LET s0 == SetOn(NewTx("taskStore"), store, "taskStore", recipe, TRUE)
  IN  \E ts \in now..Min(now + 1, MaxClock) :
        LET id == mutationIdCounter + 1
            t1 == [s0.t EXCEPT !.hasMutation = TRUE, !.committed = TRUE, !.enqueued = TRUE]
        IN  /\ s0.t.records # <<>>
            /\ mutationIdCounter' = id
            /\ now' = ts
            /\ err' = ""
            /\ \E Q \in {enqueue([QState EXCEPT !.store = s0.store],
                                  NewMutation(t1, id, ts, maxRetries))} : Install(Q)
            /\ UNCHANGED <<maxRetries, probe, cleared, tx>>

\* transaction 1 holds a stage that is not written through yet
Deferring == Held(1) /\ ~tx[1].committed /\ \E i \in 1..Len(tx[1].records) : ~tx[1].records[i].flushed

\* One transaction T staged with and without flush on the task store, while
\* store actions write the same store between a deferred stage of T and
\* T's commit; the remote calls stay awaited.
NextInterleave ==
  \/ tx[1] = NoTx /\ CreateTransaction(1, "taskStore")
  \/ \E r \in Recipes("taskStore") : \E flush \in BOOLEAN :
       Held(1) /\ Staging(1) /\ MaySet(1) /\ Fresh(r) /\ TxSetStore(1, "taskStore", r, flush)
  \/ Held(1) /\ tx[1].records # <<>> /\ TxSetMutation(1)
  \/ Held(1) /\ Committable(1) /\ TxCommit(1)
  \/ \E r \in Recipes("taskStore") :
       Deferring /\ mutationIdCounter < MaxMutations - 1 /\ Fresh(r) /\ StoreAction(r)

SpecInterleave == Init /\ [][NextInterleave]_vars

\* The program on the task store through the first Transaction slot, where
\* every remote call made eventually resolves or rejects.
NextSettle ==
  \/ mutationIdCounter < MaxSettled /\ CreateTransaction(1, "taskStore")
  \/ \E r \in Recipes("taskStore") :
       MaySet(1) /\ Staging(1) /\ Fresh(r) /\ TxSetDefault(1, r)
  \/ tx[1].records # <<>> /\ TxSetMutation(1)
  \/ mutationIdCounter < MaxSettled /\ Committable(1) /\ TxCommit(1)
  \/ TxIdle /\ \E id \in 1..Len(muts) : Resolve(id)
  \/ TxIdle /\ \E id \in 1..Len(muts) : Reject(id)

\* the remote call of mutation id settles, one way or the other
Settle(id) == TxIdle /\ id \in 1..Len(muts) /\ (Resolve(id) \/ Reject(id))

SpecSettle ==
  /\ Init
  /\ [][NextSettle]_vars
  /\ \A id \in 1..MaxSettled : WF_vars(Settle(id))

\* ------------------------------------------------------ the path utilities
\* hasPathConflict and extractAffectedPaths are exported; they are called
\* here on their own, on lists of up to MaxPaths elements.
SeqsUpTo(S, n) == UNION {[1..k -> S] : k \in 0..n}

\* entity paths and patch paths over the stores' keys; t1 / t10 share a
\* string prefix that does not end on a segment
ProbePaths ==
  {<<"tasks">>, <<"tasks", "t1">>, <<"tasks", "t10">>, <<"tasks", "t3">>, <<"users", "u1">>}

ProbePatches ==
  {[op |-> o, path |-> p] :
     o \in {"replace", "remove"},
     p \in {<<>>, <<"tasks">>, <<"tasks", "t1">>, <<"tasks", "t1", "title">>,
            <<"tasks", "t1", "status">>, <<"tasks", "t10", "title">>,
            <<"users", "u1", "assigned">>}}

InitPaths ==
  /\ maxRetries = EngineMaxRetries
  /\ InitEngine
  /\ \/ \E A, B \in SeqsUpTo({Join(p) : p \in ProbePaths}, MaxPaths) :
          probe = [fn |-> "hasPathConflict", a |-> A, b |-> B, out |-> <<>>]
     \/ \E ps \in SeqsUpTo(ProbePatches, MaxPaths) :
          probe = [fn |-> "extractAffectedPaths", a |-> ps, b |-> <<>>, out |-> <<>>]

EngineUnchanged ==
  /\ UNCHANGED <<now, store, maxRetries, mutationIdCounter, tx, err, notifs, cleared>>
  /\ QueueUnchanged

\* hasPathConflict(pathsA, pathsB) is called and returns
CallHasPathConflict ==
  /\ probe.fn = "hasPathConflict"
  /\ probe.out = <<>>
  /\ probe' = [probe EXCEPT !.out = <<hasPathConflict(probe.a, probe.b)>>]
  /\ EngineUnchanged

\* extractAffectedPaths(patches) is called and returns
CallExtractAffectedPaths ==
  /\ probe.fn = "extractAffectedPaths"
  /\ probe.out = <<>>
  /\ probe' = [probe EXCEPT !.out = <<extractAffectedPaths(probe.a)>>]
  /\ EngineUnchanged

NextPaths == CallHasPathConflict \/ CallExtractAffectedPaths

SpecPaths == InitPaths /\ [][NextPaths]_vars

\* ==================================================================
\* Properties
\* ==================================================================
Ids == 1..Len(muts)

StoresOf(m) == {m.storePatches[i].store : i \in 1..Len(m.storePatches)}

\* the mutation was retired as rolled-back (as the failed one or as a dependent)
RolledBack(id) == Contains(appended[id], "rolled-back")

\* every write a transaction made to a store is covered by an enqueued mutation
NoOpenWrites == \A k \in TxSlots : tx[k].records = <<>> \/ tx[k].enqueued

\* the forward patches of the mutations in keep, applied in commit order
\* (from mutation id on) to value state of store s
RECURSIVE ReplayFrom(_, _, _, _)
ReplayFrom(s, state, id, keep) ==
  IF id > Len(muts) THEN [ok |-> TRUE, val |-> state]
  ELSE IF ~(id \in keep /\ HasEntry(muts[id], s))
    THEN ReplayFrom(s, state, id + 1, keep)
    ELSE LET r == applyPatches(state, EntryOf(muts[id], s).patches)
         IN  IF r.ok THEN ReplayFrom(s, r.val, id + 1, keep)
             ELSE [ok |-> FALSE, val |-> state]

\* the turn taken is the terminal failure of mutation id: its remote call
\* rejected and its retry budget is used up
FailsTerminally(id) ==
  /\ calls[id] > 0
  /\ calls'[id] = calls[id] - 1
  /\ muts'[id].retryCount = muts[id].retryCount + 1
  /\ muts'[id].retryCount > muts'[id].maxRetries

\* every mutation committed so far staged one set() call
SingleSetOnly == \A id \in Ids : PatchCount(muts[id].storePatches) = 1

\* C1: at the end of every engine turn each store's value is its initial
\* value with the forward patches of the committed mutations that were not
\* rolled back applied in commit order (stated for runs whose transactions
\* stage one set() each, where a mutation's delta is a single patch).
C1_SurvivorLinearization ==
  (NoOpenWrites /\ SingleSetOnly) =>
    \A s \in StoreSet :
      LET r == ReplayFrom(s, InitialState(s), 1, {id \in Ids : ~RolledBack(id)})
      IN  r.ok => store[s] = r.val

\* C2: when a mutation F fails terminally while it is the only live mutation
\* (it is the latest commit and every earlier mutation has succeeded), every
\* store F touched ends the rollback with the value it had before F's
\* transaction was applied.
C2_Restoration ==
  [][\A id \in Ids :
       (/\ FailsTerminally(id)
        /\ queue = <<id>>
        /\ id = Len(muts)
        /\ \A j \in 1..(id - 1) : appended[j] = <<"success">>)
       => \A s \in StoresOf(muts[id]) : store'[s] = muts[id].pre[s]]_vars

\* the affected-path sets of the committed mutations are pairwise non-conflicting
PairwiseNonConflicting ==
  \A i, j \in Ids :
    i # j => ~hasPathConflict(muts[i].affectedPaths, muts[j].affectedPaths)

\* every mutation committed so far is still in the live queue
AllLive == queue = [i \in Ids |-> i]

\* the queue without mutation id
QueueWithout(id) == LET Other(j) == j # id IN SelectSeq(queue, Other)

\* C3: when all committed mutations are live and pairwise non-conflicting,
\* the terminal failure of one of them leaves every store as if it had
\* never been committed, and the others stay live and are not rolled back.
C3_RebaseCorrectness ==
  [][\A id \in Ids :
       (FailsTerminally(id) /\ AllLive /\ PairwiseNonConflicting)
       => /\ \A s \in StoreSet :
               LET r == ReplayFrom(s, InitialState(s), 1, Ids \ {id})
               IN  r.ok /\ store'[s] = r.val
          /\ queue' = QueueWithout(id)
          /\ \A j \in Ids \ {id} :
               appended'[j] = <<>> /\ muts'[j].status = muts[j].status]_vars

\* the leaf paths the recipes of store s write
FieldPaths(s) == {<<RootKey(s), e, FieldOf(s)>> : e \in EntKeys(s)}

\* the indices of the forward patches of mutation id on store s at path
PatchesAt(id, s, path) ==
  IF HasEntry(muts[id], s)
    THEN {i \in 1..Len(EntryOf(muts[id], s).patches) :
            EntryOf(muts[id], s).patches[i].path = path}
    ELSE {}

MaxOf(S) == CHOOSE x \in S : \A y \in S : y <= x

\* the value the last forward patch of mutation id at path writes
LastWritten(id, s, path) ==
  EntryOf(muts[id], s).patches[MaxOf(PatchesAt(id, s, path))].value

\* C4: after the rollback of a failed mutation, a leaf path written by
\* several survivors holds the value written by the last-committed of them,
\* whatever the survivors' timestamps.
C4_CommitOrderRebase ==
  [][\A f \in Ids :
       (FailsTerminally(f) /\ err' = "")
       => \A s \in StoreSet : \A path \in FieldPaths(s) :
            LET live == {queue'[i] : i \in 1..Len(queue')}
                W == {id \in live : PatchesAt(id, s, path) # {}}
                E == {id \in live : PatchesAt(id, s, SubSeq(path, 1, 2)) # {}}
            IN  (W # {} /\ E = {})
                => /\ path[2] \in DOMAIN store'[s][path[1]]
                   /\ store'[s][path[1]][path[2]][path[3]]
                        = LastWritten(MaxOf(W), s, path)]_vars

\* C5: at the end of every engine turn the forward delta of a mutation is
\* applied in all of the stores it touched or in none of them.
C5_CrossStoreAtomicity ==
  \A id \in Ids : \A s1, s2 \in DOMAIN applied[id] :
    applied[id][s1] = applied[id][s2]

\* C6: the terminal failure of a mutation staged on two stores restores both
\* in its own turn: the notification sent before the rollback sees neither
\* store restored, the first one sent after it starts sees both, and the
\* delta is undone in both stores when the turn ends.
C6_SingleTurnRestore ==
  [][\A f \in Ids :
       (FailsTerminally(f) /\ Cardinality(StoresOf(muts[f])) = 2)
       => /\ Len(notifs') >= 2
          /\ notifs'[1].store = store
          /\ notifs'[2].store = store'
          /\ \A s \in StoresOf(muts[f]) : ~applied'[f][s]]_vars

\* the callback onMutationError(snapshot, "dependent mutation rolled back")
IsDependentError(cb) == cb.kind = "error" /\ cb.error = "dependent"

\* C7: when F fails, a later live mutation m sharing an affected path with F
\* is dropped in that turn exactly if its forward patches do not apply to the
\* state without F (the forward patches of the earlier mutations that are
\* not rolled back); a dropped m is retired rolled-back, gets the dependent
\* error callback, and its delta remains in none of its stores.
C7_DependentCascade ==
  [][\A f \in Ids :
       (FailsTerminally(f) /\ err' = "")
       => \A m \in {queue[i] : i \in 1..Len(queue)} :
            (/\ m > f
             /\ muts[m].status # "failed"
             /\ hasPathConflict(muts[f].affectedPaths, muts[m].affectedPaths))
            => LET dropped == \A i \in 1..Len(queue') : queue'[i] # m
                   older == {j \in 1..(m - 1) : j # f /\ ~Contains(appended'[j], "rolled-back")}
                   fails == \E s \in StoresOf(muts[m]) :
                              LET b == ReplayFrom(s, InitialState(s), 1, older)
                              IN  ~applyPatches(b.val, EntryOf(muts[m], s).patches).ok
               IN  /\ dropped <=> fails
                   /\ dropped =>
                        /\ appended'[m] = <<"rolled-back">>
                        /\ Len(cbs'[m]) = 1 /\ IsDependentError(cbs'[m][1])
                        /\ \A s \in StoresOf(muts[m]) : ~applied'[m][s]]_vars

\* the three commits of the create-failure scenario: m1 creates t3, m2 edits
\* t3, m3 edits t3 and writes the user store
CreateScenario ==
  /\ Len(muts) = 3
  /\ StoresOf(muts[1]) = {"taskStore"}
  /\ Len(EntryOf(muts[1], "taskStore").patches) = 1
  /\ EntryOf(muts[1], "taskStore").patches[1].op = "add"
  /\ EntryOf(muts[1], "taskStore").patches[1].path = <<"tasks", "t3">>
  /\ StoresOf(muts[2]) = {"taskStore"}
  /\ Len(EntryOf(muts[2], "taskStore").patches) = 1
  /\ EntryOf(muts[2], "taskStore").patches[1].path = <<"tasks", "t3", "title">>
  /\ StoresOf(muts[3]) = {"taskStore", "userStore"}
  /\ EntryOf(muts[3], "taskStore").patches[1].path = <<"tasks", "t3", "title">>

\* every remote call has settled
AllSettled == \A id \in Ids : calls[id] = 0

\* C8: in the create-failure scenario, once m1's remote call has failed and
\* all calls have settled, the three mutations are rolled-back, t3 is absent
\* and the user store is back at its value before m3.
C8_CreateFailureCascade ==
  (/\ CreateScenario
   /\ AllSettled
   /\ \E i \in 1..Len(cbs[1]) : cbs[1][i].kind = "error" /\ cbs[1][i].error = "E")
  => /\ \A id \in Ids : appended[id] = <<"rolled-back">>
     /\ "t3" \notin DOMAIN store["taskStore"]["tasks"]
     /\ store["userStore"] = muts[3].pre["userStore"]

\* C9: a mutation has at most one snapshot appended to history, exactly one
\* once it has left the live queue, and only with status success or
\* rolled-back.
C9_SingleRetirement ==
  \A id \in Ids :
    /\ Len(appended[id]) <= 1
    /\ \A i \in 1..Len(appended[id]) : appended[id][i] \in {"success", "rolled-back"}
    /\ (~cleared /\ ~Contains(queue, id)) => Len(appended[id]) = 1

\* C10: a mutation receives at most one callback, exactly one once it has
\* left the live queue: onMutationSuccess if it was retired as success,
\* else onMutationError with the remote's error or the dependent reason.
C10_SingleCallback ==
  \A id \in Ids :
    /\ Len(cbs[id]) <= 1
    /\ (~cleared /\ ~Contains(queue, id)) => Len(cbs[id]) = 1
    /\ \A i \in 1..Len(cbs[id]) :
         \/ cbs[id][i].kind = "success" /\ appended[id] = <<"success">>
         \/ cbs[id][i].kind = "error" /\ cbs[id][i].error \in {"E", "dependent"}
              /\ appended[id] = <<"rolled-back">>

\* the remote call of mutation id is awaited while clear() has removed the
\* mutation from the live queue (it was neither retired nor dropped before)
ClearedInFlight(id) ==
  /\ cleared
  /\ calls[id] > 0
  /\ ~Contains(queue, id)
  /\ appended[id] = <<>>

\* the turn taken is a settlement of the remote call of mutation id
Settles(id) == calls[id] > 0 /\ calls'[id] = calls[id] - 1 /\ invoked'[id] = invoked[id]

\* C11: the settlement of a remote call whose mutation was removed by clear()
\* is ignored: it appends nothing to history, writes no store, re-dispatches
\* nothing and leaves the live queue and the history as they were.
C11_ClearedSettlementIgnored ==
  [][\A id \in Ids :
       (ClearedInFlight(id) /\ Settles(id))
       => /\ history' = history
          /\ appended' = appended
          /\ store' = store
          /\ queue' = queue
          /\ invoked' = invoked]_vars

\* the remote call of mutation id is awaited while the mutation was already
\* rolled back as a dependent by another mutation's rollback
DroppedInFlight(id) ==
  /\ calls[id] > 0
  /\ appended[id] = <<"rolled-back">>
  /\ \E i \in 1..Len(cbs[id]) : IsDependentError(cbs[id][i])

\* the statuses one onQueueChange delivery n shows for mutation id
StatusesIn(n, id) ==
  {n.live[i].status : i \in {j \in 1..Len(n.live) : n.live[j].id = id}}
    \cup {n.hist[i].status : i \in {j \in 1..Len(n.hist) : n.hist[j].id = id}}

\* C12: the settlement of the remote call of a mutation that was already
\* rolled back as a dependent is ignored: the mutation is still reported
\* rolled-back only, history gets no further entry, no callback is made for
\* it, no rollback runs and no store value changes.
C12_DroppedSettlementIgnored ==
  [][\A id \in Ids :
       (DroppedInFlight(id) /\ Settles(id))
       => /\ \A i \in 1..Len(notifs') : StatusesIn(notifs'[i], id) \subseteq {"rolled-back"}
          /\ appended' = appended
          /\ history' = history
          /\ cbs' = cbs
          /\ store' = store]_vars

\* the status changes of the mutation lifecycle
Lifecycle ==
  {<<"none", "pending">>, <<"pending", "inflight">>, <<"inflight", "success">>,
   <<"inflight", "pending">>, <<"inflight", "failed">>, <<"failed", "rolled-back">>}

\* C13: the statuses reported for a mutation id, in onQueueChange snapshots
\* and in callbacks, change only along the lifecycle: none after success or
\* rolled-back was reported, and no step outside pending -> inflight ->
\* success, inflight -> pending, inflight -> failed -> rolled-back.
C13_StatusLifecycle ==
  \A id \in Ids : seen[id].steps \subseteq Lifecycle

\* the remote call of mutation id was made once and resolved
ResolvedFirst(id) == invoked[id] = 1 /\ calls[id] = 0 /\ muts[id].retryCount = 0

\* the remote call of mutation id rejected with the retry budget used up
FailedTerminally(id) == muts[id].retryCount > muts[id].maxRetries

\* C14: a mutation whose remote call resolved on the first attempt was
\* reported pending, then inflight, then success, and nothing else, and has
\* exactly one history entry; a mutation that failed terminally was
\* reported pending, then inflight, and last rolled-back.
C14_ObservedStream ==
  \A id \in Ids :
    /\ ResolvedFirst(id)
         => /\ seen[id].steps = {<<"none", "pending">>, <<"pending", "inflight">>,
                                 <<"inflight", "success">>}
            /\ appended[id] = <<"success">>
    /\ FailedTerminally(id)
         => /\ {<<"none", "pending">>, <<"pending", "inflight">>} \subseteq seen[id].steps
            /\ seen[id].last = "rolled-back"

\* the turn taken is a commit() that enqueued mutation id
Commits(id) == mutationIdCounter' = id /\ mutationIdCounter = id - 1

Unsettled(id) == Contains(queue, id) /\ muts[id].status \in {"pending", "inflight"}

\* the index of the success snapshot of mutation id in history, 0 if none
SuccessIndex(id) ==
  LET I == {i \in 1..Len(history) : history[i].id = id /\ history[i].status = "success"}
  IN  IF I = {} THEN 0 ELSE MaxOf(I)

\* C16: mutations with conflicting affected paths are serialized: the remote
\* function of a mutation is not running while an earlier-committed live
\* mutation with a conflicting path is pending or in flight, so conflicting
\* mutations that succeeded appear in history in commit order (the later
\* commit nearer the front).
C16_ConflictSerialized ==
  \A i, j \in Ids :
    (i < j /\ hasPathConflict(muts[i].affectedPaths, muts[j].affectedPaths))
    => /\ Unsettled(i) => (calls[j] = 0 /\ j \notin inflightIds)
       /\ (SuccessIndex(i) > 0 /\ SuccessIndex(j) > 0) => SuccessIndex(j) < SuccessIndex(i)

\* the turn taken is a rejection of the remote call of mutation id
Rejects(id) == calls[id] > 0 /\ muts'[id].retryCount = muts[id].retryCount + 1

\* C17: with maxRetries = k the remote function of a mutation is called at
\* most k + 1 times; a rejection within the budget sends the same mutation
\* (same id, same patches) through pending and inflight again without
\* writing a store; rollback runs for the mutation exactly when its
\* (k + 1)-th call rejects.
C17_RetryBudget ==
  [][\A id \in Ids :
       /\ invoked'[id] <= maxRetries + 1
       /\ (Rejects(id) /\ invoked[id] <= maxRetries)
            => /\ invoked'[id] = invoked[id] + 1
               /\ calls'[id] = 1
               /\ Len(notifs') = 2
               /\ StatusesIn(notifs'[1], id) = {"pending"}
               /\ StatusesIn(notifs'[2], id) = {"inflight"}
               /\ muts'[id].storePatches = muts[id].storePatches
               /\ store' = store
       /\ Rejects(id)
            => (muts'[id].status = "failed" <=> invoked[id] = maxRetries + 1)]_vars

\* C18: every mutation in the live queue has retryCount <= maxRetries, in
\* the state at the end of every turn and in every list of live snapshots
\* handed to onQueueChange.
C18_RetryCountBound ==
  /\ \A i \in 1..Len(queue) : muts[queue[i]].retryCount <= muts[queue[i]].maxRetries
  /\ \A n \in 1..Len(notifs) : \A i \in 1..Len(notifs[n].live) :
       notifs[n].live[i].retryCount <= notifs[n].live[i].maxRetries

\* the snapshots mutation id had appended to history before this turn
AppendedBefore(id) == IF id \in DOMAIN appended THEN Len(appended[id]) ELSE 0

\* C19: history never holds more than 20 snapshots; a turn puts the
\* snapshots it retires in front of the older ones, which keep their order,
\* and what no longer fits is dropped from the old end.
C19_HistoryBound ==
  [][\E n \in 0..Len(history') :
       /\ Len(history') <= 20
       /\ Len(history') = Min(Len(history) + n, maxHistory)
       /\ SubSeq(history', n + 1, Len(history')) = SubSeq(history, 1, Len(history') - n)
       /\ \A i \in 1..n : Len(appended'[history'[i].id]) > AppendedBefore(history'[i].id)
       /\ \A id \in DOMAIN appended' :
            Len(appended'[id]) > AppendedBefore(id)
            => \E i \in 1..n : history'[i].id = id]_vars

\* history is full and the oldest retired mutation is no longer in it
C19_Witness ==
  /\ Len(history) = maxHistory
  /\ appended[1] # <<>>
  /\ \A i \in 1..Len(history) : history[i].id # 1
  /\ \E i \in 1..Len(history) : history[i].status = "rolled-back"

\* the turn taken changes the queue state: the live list, the history or
\* the status of a live mutation
QueueChanges ==
  \/ queue' # queue
  \/ history' # history
  \/ \E id \in Ids : Contains(queue, id) /\ muts'[id].status # muts[id].status

\* the ids of a list of snapshots are in commit order
InCommitOrder(snapshots) ==
  \A i, j \in 1..Len(snapshots) : i < j => snapshots[i].id < snapshots[j].id

SetDefaultCall(k) == \E r \in Recipes("taskStore") : TxSetDefault(k, r)

SetStoreCall(k) ==
  \E r \in Recipes("taskStore") : \E flush \in BOOLEAN : TxSetStore(k, "taskStore", r, flush)

\* the call changed nothing: no store value, no record, no mutation
NoEffect == store' = store /\ tx' = tx /\ muts' = muts /\ queue' = queue

\* C21: a set() call on a committed transaction fails with the closed-
\* transaction error and changes no store, no record and no patch of the
\* enqueued mutation; a set(recipe) call on a transaction without a default
\* store fails with the no-default-store error and changes nothing.
C21_SetErrors ==
  [][\A k \in TxSlots :
       /\ (tx[k].committed /\ (SetDefaultCall(k) \/ SetStoreCall(k)))
            => (err' = "ClosedTransaction" /\ NoEffect)
       /\ (tx[k].defaultStore = "null" /\ ~tx[k].committed /\ SetDefaultCall(k))
            => (err' = "NoDefaultStore" /\ NoEffect)]_vars

\* the turn taken enqueued exactly one mutation, built from slot k
EnqueuesOne(k) ==
  /\ Len(muts') = Len(muts) + 1
  /\ queue' = Append(queue, Len(muts) + 1)
  /\ tx'[k].committed /\ tx'[k].enqueued

\* the turn taken enqueued nothing, notified nobody and left slot k open
Refused(k) ==
  /\ muts' = muts /\ queue' = queue /\ history' = history
  /\ notifs' = <<>>
  /\ store' = store
  /\ tx' = tx /\ ~tx'[k].committed

\* C22: commit() with nothing recorded fails with the empty-transaction
\* error, commit() with records but no remote function fails with the
\* no-mutation error; both enqueue nothing, notify nobody and leave the
\* transaction open; commit() on an open transaction that has records and a
\* remote function enqueues exactly one mutation.
C22_CommitErrors ==
  [][\A k \in TxSlots :
       (Held(k) /\ ~tx[k].committed /\ TxCommit(k))
       => /\ tx[k].records = <<>> => (err' = "EmptyTransaction" /\ Refused(k))
          /\ (tx[k].records # <<>> /\ ~tx[k].hasMutation)
               => (err' = "NoMutation" /\ Refused(k))
          /\ (tx[k].records # <<>> /\ tx[k].hasMutation)
               => (err' = "" /\ EnqueuesOne(k))]_vars

\* commit() has just failed for the missing remote function on a
\* transaction that has records, which is still open
C22_Witness ==
  \E k \in TxSlots :
    /\ err = "NoMutation"
    /\ tx[k].records # <<>> /\ ~tx[k].hasMutation /\ ~tx[k].committed
    /\ notifs = <<>>

\* C23: a transaction on which set() was called and whose commit() has not
\* succeeded (never called, or failed for the missing remote function)
\* leaves every store it staged on at the value the store had before the
\* transaction's first set: no store holds a write that no enqueued
\* mutation covers.
C23_AbortByNotCommitting ==
  \A k \in TxSlots :
    (Held(k) /\ ~tx[k].enqueued)
    => \A s \in DOMAIN tx[k].pre : store[s] = tx[k].pre[s]

\* C24: commit() on a transaction that is already committed is a no-op: no
\* second mutation is enqueued, no patch is re-applied to a store, no
\* notification is emitted and no error is raised.
C24_RecommitNoOp ==
  [][\A k \in TxSlots :
       (Held(k) /\ tx[k].committed /\ TxCommit(k))
       => /\ err' = ""
          /\ notifs' = <<>>
          /\ store' = store
          /\ muts' = muts /\ queue' = queue /\ history' = history
          /\ inflightIds' = inflightIds /\ invoked' = invoked
          /\ mutationIdCounter' = mutationIdCounter
          /\ tx' = tx]_vars

\* a committed transaction whose mutation is live, after a call that
\* notified nobody and raised nothing
C24_Witness ==
  \E k \in TxSlots :
    /\ Held(k) /\ tx[k].committed /\ tx[k].enqueued
    /\ Len(queue) = 1 /\ mutationIdCounter = 1
    /\ notifs = <<>> /\ err = ""

\* the recipe yields no patches on the value set() would run it on
EmptyOn(k, s, recipe) ==
  LET baseState == IF s \in DOMAIN tx[k].workingStates
                     THEN tx[k].workingStates[s] ELSE store[s]
  IN  produceWithPatches(s, baseState, recipe).patches = <<>>

\* the call left records, staged values, stores and queue as they were
Dropped(k) ==
  /\ tx' = [tx EXCEPT ![k].dropped = TRUE]
  /\ store' = store
  /\ err' = "" /\ notifs' = <<>>
  /\ muts' = muts /\ queue' = queue /\ history' = history

\* C25: a set() whose recipe produces no patches records nothing, writes no
\* store and leaves the staged value alone; a transaction all of whose
\* recipes were empty fails at commit() with the empty-transaction error,
\* and no mutation, snapshot or notification is created for it.
C25_EmptyRecipeDropped ==
  [][\A k \in TxSlots :
       (Held(k) /\ ~tx[k].committed)
       => /\ \A r \in Recipes("taskStore") :
               /\ (EmptyOn(k, "taskStore", r) /\ tx[k].defaultStore # "null"
                     /\ TxSetDefault(k, r)) => Dropped(k)
               /\ \A flush \in BOOLEAN :
                    (EmptyOn(k, "taskStore", r) /\ TxSetStore(k, "taskStore", r, flush))
                    => Dropped(k)
          /\ (tx[k].dropped /\ tx[k].records = <<>> /\ TxCommit(k))
               => (err' = "EmptyTransaction" /\ Refused(k))
          /\ (tx'[k].dropped /\ tx'[k].records = <<>>) => ~tx'[k].enqueued]_vars

\* commit() just failed on a transaction whose only set() calls were dropped
C25_Witness ==
  \E k \in TxSlots :
    /\ Held(k) /\ tx[k].dropped /\ tx[k].records = <<>> /\ ~tx[k].committed
    /\ err = "EmptyTransaction" /\ notifs = <<>> /\ muts = <<>>

\* the value the transaction has staged for store s: what the next set()
\* on s would take as its base
StagedIn(t, st, s) ==
  IF s \in DOMAIN t.workingStates THEN t.workingStates[s] ELSE st[s]

StagedValue(k, s) == StagedIn(tx[k], store, s)

\* the step pushed one record on slot k whose patches have the operations
\* and paths recipe r yields on the staged value
Stages(k, s, r) ==
  LET p == produceWithPatches(s, StagedValue(k, s), r).patches
      n == Len(tx'[k].records)
  IN  /\ p # <<>>
      /\ n = Len(tx[k].records) + 1
      /\ tx'[k].records[n].store = s
      /\ Len(tx'[k].records[n].patches) = Len(p)
      /\ \A i \in 1..Len(p) : /\ tx'[k].records[n].patches[i].op = p[i].op
                               /\ tx'[k].records[n].patches[i].path = p[i].path

\* commit() went through to enqueueFn
CommitSucceeds(k) == ~tx[k].committed /\ TxCommit(k) /\ tx'[k].enqueued

\* C26: a set with flush:false leaves the store's value unchanged; the next
\* set on the same store runs its recipe on the staged value, not on the
\* store's value; and commit() writes the non-flushed stages through, so
\* that after commit the store holds the value all staged recipes produced.
C26_DeferredFlush ==
  [][\A k \in TxSlots :
       (Held(k) /\ ~tx[k].committed)
       => /\ \A r \in Recipes("taskStore") :
               /\ (Stages(k, "taskStore", r) /\ TxSetStore(k, "taskStore", r, FALSE))
                    => store' = store
               /\ \A flush \in BOOLEAN :
                    ( /\ "taskStore" \in DOMAIN tx[k].workingStates
                      /\ Stages(k, "taskStore", r)
                      /\ TxSetStore(k, "taskStore", r, flush) )
                    => LET p == produceWithPatches("taskStore",
                                  tx[k].workingStates["taskStore"], r)
                       IN  /\ tx'[k].records[Len(tx'[k].records)].patches = p.patches
                           /\ StagedIn(tx'[k], store', "taskStore") = p.next
          /\ CommitSucceeds(k)
               => \A s \in DOMAIN tx[k].pre : store'[s] = StagedValue(k, s)]_vars

\* C27: for every mix of flushing and non-flushing set calls, when commit()
\* returns, each store of the transaction holds the result of applying the
\* mutation's merged forward patches for it, once and in stage order, to
\* the value the store had before the transaction's first set (no other
\* write to the store in between).
C27_CommitAppliesMergedOnce ==
  [][\A k \in TxSlots :
       (Held(k) /\ CommitSucceeds(k))
       => LET m == muts'[Len(muts')]
          IN  \A i \in 1..Len(m.storePatches) :
                LET e == m.storePatches[i]
                    r == applyPatches(tx[k].pre[e.store], e.patches)
                IN  r.ok /\ store'[e.store] = r.val]_vars

\* C28: clear() empties the live queue, the history and the in-flight
\* markers and notifies the observer once, with an empty list; right after
\* it hasPending is false, and clear() writes no store.
C28_ClearEmpties ==
  [][Clear
     => /\ queue' = <<>>
        /\ history' = <<>>
        /\ inflightIds' = {}
        /\ Len(notifs') = 1
        /\ notifs'[1].live = <<>> /\ notifs'[1].hist = <<>>
        /\ ~hasPending'
        /\ store' = store]_vars

\* clear() was called with a mutation in flight and another one retired
C28_Witness ==
  /\ cleared
  /\ queue = <<>> /\ history = <<>> /\ inflightIds = {}
  /\ Len(notifs) = 1 /\ notifs[1].live = <<>> /\ notifs[1].hist = <<>>
  /\ \E id \in 1..Len(muts) : muts[id].status = "inflight"
  /\ \E id \in 1..Len(muts) : appended[id] # <<>>

\* the remote call of live mutation id is outstanding
Stalled(id) ==
  /\ Contains(queue, id)
  /\ muts[id].status = "inflight"
  /\ id \in inflightIds
  /\ calls[id] = 1

\* the engine left mutation id as it was: in flight, live, not called
\* again, not retired, no callback, its patches still applied
StaysInFlight(id) ==
  /\ muts'[id] = muts[id]
  /\ Contains(queue', id)
  /\ id \in inflightIds'
  /\ invoked'[id] = invoked[id]
  /\ appended'[id] = appended[id]
  /\ cbs'[id] = cbs[id]
  /\ applied'[id] = applied[id]
  /\ hasPending'

\* the step dropped mutation id as a dependent of another mutation's
\* rollback: onMutationError with the dependent reason, rolled-back snapshot
DroppedAsDependent(id) ==
  /\ Len(cbs'[id]) = Len(cbs[id]) + 1
  /\ IsDependentError(cbs'[id][Len(cbs'[id])])
  /\ appended'[id] = Append(appended[id], "rolled-back")
  /\ muts'[id].status = "failed"

\* while id stalls, a commit dispatches its mutation at once and the
\* settlement of another mutation retires that mutation
OthersProceed(id) ==
  /\ \A j \in 1..MaxMutations :
       Commits(j) => (invoked'[j] = 1 /\ muts'[j].status = "inflight")
  /\ \A j \in Ids \ {id} :
       (Stalled(j) /\ Settles(j))
       => (appended'[j] # appended[j] \/ muts'[j].status = "failed")

ObserverEdits ==
  \/ \E id \in Ids : ObserverEditsPaths(id)
  \/ \E i \in 1..Len(history) : ObserverEditsHistory(i)

\* every snapshot of delivery n carries what the engine wrote for the
\* mutations ms
AsWritten(ms, n) ==
  /\ \A i \in 1..Len(n.live) :
       /\ n.live[i].status \in {"pending", "inflight", "failed"}
       /\ n.live[i].affectedPaths = AllAffectedPaths(ms[n.live[i].id].storePatches)
  /\ \A i \in 1..Len(n.hist) :
       /\ n.hist[i].status \in {"success", "rolled-back"}
       /\ n.hist[i].affectedPaths = AllAffectedPaths(ms[n.hist[i].id].storePatches)

\* C30: no snapshot object is delivered in two notifications and no
\* snapshot shares a mutable reference with the mutation: a write of the
\* observer to a snapshot it received changes neither the engine's
\* mutations, queue and history nor any later notification.
C30_SnapshotFreshness ==
  [][/\ ObserverEdits => (muts' = muts /\ history' = history /\ queue' = queue)
     /\ \A i \in 1..Len(notifs') : AsWritten(muts', notifs'[i])]_vars

\* C31: every mutation handed to the queue has a non-empty storePatches map
\* in which every store key has at least one forward patch, and this stays
\* true of every live mutation.
C31_StorePatchesNonEmpty ==
  \A id \in Ids :
    /\ muts[id].storePatches # <<>>
    /\ \A i \in 1..Len(muts[id].storePatches) : muts[id].storePatches[i].patches # <<>>

\* a live mutation spans two stores, after a rollback of another mutation
C31_Witness ==
  \E id, f \in Ids :
    /\ Contains(queue, id) /\ Len(muts[id].storePatches) = 2
    /\ f # id /\ appended[f] = <<"rolled-back">>

\* string p is a proper prefix of string q that ends just before a "."
PrefixOnBoundary(p, q) ==
  /\ Len(p) < Len(q)
  /\ \A i \in 1..Len(p) : q[i] = p[i]
  /\ q[Len(p) + 1] = "."

Overlaps(p, q) == p = q \/ PrefixOnBoundary(p, q) \/ PrefixOnBoundary(q, p)

\* C32: hasPathConflict(A, B) is true exactly when some path of A equals,
\* is a prefix of or is prefixed by some path of B, the prefix ending on a
\* "." boundary; it is symmetric, true for (A, A) with A non-empty and false
\* when either argument is empty.
C32_PathConflict ==
  (probe.fn = "hasPathConflict" /\ probe.out # <<>>)
  => LET A == probe.a
         B == probe.b
         r == probe.out[1]
     IN  /\ r = (\E i \in 1..Len(A) : \E j \in 1..Len(B) : Overlaps(A[i], B[j]))
         /\ r = hasPathConflict(B, A)
         /\ (A = B /\ A # <<>>) => r
         /\ (A = <<>> \/ B = <<>>) => ~r

\* 'tasks.t1' against 'tasks.t10' and 'tasks.t3': no conflict
C32_Witness ==
  /\ probe.fn = "hasPathConflict"
  /\ probe.a = <<Join(<<"tasks", "t1">>)>>
  /\ probe.b = <<Join(<<"tasks", "t10">>), Join(<<"tasks", "t3">>)>>
  /\ probe.out = <<FALSE>>

\* the entity path of a patch: its first min(len, 2) segments joined by "."
EntityPath(patch) == Join(SubSeq(patch.path, 1, Min(Len(patch.path), 2)))

\* the patches with the other operation on the same paths
OtherOps(ps) ==
  [i \in 1..Len(ps) |->
     [op |-> IF ps[i].op = "replace" THEN "remove" ELSE "replace", path |-> ps[i].path]]

\* C33: extractAffectedPaths returns exactly the set, without duplicates, of
\* the entity paths (first min(len, 2) segments joined by ".") of the patch
\* paths, so patches on different fields of one entity yield one path; the
\* result depends on the patch paths only.
C33_ExtractAffectedPaths ==
  (probe.fn = "extractAffectedPaths" /\ probe.out # <<>>)
  => LET ps == probe.a
         r  == probe.out[1]
     IN  /\ {r[i] : i \in 1..Len(r)} = {EntityPath(ps[i]) : i \in 1..Len(ps)}
         /\ \A i, j \in 1..Len(r) : r[i] = r[j] => i = j
         /\ r = extractAffectedPaths(OtherOps(ps))

\* patches on title and status of task t1 yield the single path 'tasks.t1'
C33_Witness ==
  /\ probe.fn = "extractAffectedPaths"
  /\ Len(probe.a) = 2
  /\ probe.a[1].path = <<"tasks", "t1", "title">>
  /\ probe.a[2].path = <<"tasks", "t1", "status">>
  /\ probe.out = <<<<Join(<<"tasks", "t1">>)>>>>

\* C34: if every remote call eventually resolves or rejects (and no store
\* action stays open forever), every committed mutation eventually leaves
\* the live queue, and none stays live forever with status failed or
\* pending.
C34_Progress ==
  <>[]TxIdle => \A id \in 1..MaxSettled : Contains(queue, id) ~> ~Contains(queue, id)

\* the entity paths the open transaction k has staged patches on
StagedPaths(k) == AllAffectedPaths(MergeRecords(tx[k].records, <<>>))

\* every mutation committed so far wrote paths unrelated to those of k
OthersUnrelated(k) ==
  /\ muts # <<>>
  /\ \A id \in Ids : ~hasPathConflict(muts[id].affectedPaths, StagedPaths(k))

\* the value of store s with the writes of the mutations committed since
\* k's first set and all of k's staged patches
BothWrites(k, s, others) ==
  IF others.ok THEN applyPatches(others.val, EntryOf([storePatches |-> MergeRecords(tx[k].records, <<>>)], s).patches)
  ELSE others

\* C35: when other writes change unrelated paths of a store between a
\* flush:false set of transaction T and T's commit, the store holds both
\* the other writes and all of T's staged changes after T's commit.
C35_DeferredFlushKeepsOtherWrites ==
  [][(CommitSucceeds(1) /\ OthersUnrelated(1))
     => LET r == BothWrites(1, "taskStore",
                            ReplayFrom("taskStore", tx[1].pre["taskStore"], 1, Ids))
        IN  r.ok /\ store'["taskStore"] = r.val]_vars

C37_OneOutstandingCall ==
  [][\A id \in 1..MaxMutations :
       /\ id \in 1..Len(muts') => calls'[id] <= 1
       /\ (id \in Ids /\ invoked'[id] > invoked[id])
            => (calls'[id] = 1 /\ invoked'[id] = invoked[id] + 1
                /\ (calls[id] = 0 \/ Settles(id) \/ Rejects(id)))]_vars

\* a mutation was called a second time, after its first call rejected,
\* while another mutation's call is outstanding
C37_Witness ==
  \E i, j \in Ids :
    /\ invoked[i] = 2 /\ calls[i] = 1
    /\ j # i /\ calls[j] = 1 /\ invoked[j] = 1

\* the mutation ids of one onQueueChange delivery, live snapshots first
DeliveredIds(n) ==
  [i \in 1..Len(n.live) |-> n.live[i].id] \o [i \in 1..Len(n.hist) |-> n.hist[i].id]

\* C38: no list delivered to onQueueChange holds two snapshots with the
\* same mutation id: a mutation appears at most once, among the live
\* snapshots or in the history.
C38_NoDuplicateIds ==
  \A k \in 1..Len(notifs) :
    \A i, j \in 1..Len(DeliveredIds(notifs[k])) :
      DeliveredIds(notifs[k])[i] = DeliveredIds(notifs[k])[j] => i = j

\* C39: from its commit on (without clear(), and with fewer than maxHistory
\* retirements after it) a mutation appears in every onQueueChange
\* notification, those emitted during a rollback included: in none is a
\* committed mutation absent from both the live snapshots and the history.
C39_AlwaysReported ==
  \A k \in 1..Len(notifs) :
    \A id \in Ids : Contains(DeliveredIds(notifs[k]), id)

\* the rollback of this turn dropped no survivor as a dependent
NoSurvivorDropped(f) == \A j \in Ids \ {f} : cbs'[j] = cbs[j]

\* C40: the rollback of a failed mutation F leaves unchanged the value of
\* every store F did not touch, as long as no survivor is dropped as a
\* dependent: undoing and re-applying the survivors of such a store yields
\* the value the store had before the rollback, also when several survivors
\* wrote the same path of it.
C40_UntouchedStoresKept ==
  [][\A f \in Ids :
       (FailsTerminally(f) /\ NoSurvivorDropped(f))
       => \A s \in StoreSet \ StoresOf(muts[f]) : store'[s] = store[s]]_vars

====
